---- MODULE Spec2Model ----
(***************************************************************************)
(* Model of the htmx template router of go-htmx: GetRouteId, the           *)
(* TemplateHandler dispatcher, NewHandler and the reload loop of main.     *)
(* Strings are sequences of byte values, so that sort.Strings,             *)
(* strings.HasPrefix, strings.Join and strings.ToLower are computed as Go  *)
(* computes them.                                                          *)
(***************************************************************************)
EXTENDS Integers, Sequences, FiniteSets, TLC

VARIABLES
  req,      \* GetRouteId: the request r
  routeId,  \* GetRouteId: the returned route id
  calls,    \* GetRouteId: number of calls made on req
  disk,     \* the templates directory: file name -> content
  mpc,      \* main: position in main
  build,    \* NewHandler: the construction in progress
  muxes,    \* the http.ServeMux objects made by NewHandler, by number
  handler,  \* main: the variable handler (number of a mux, 0 for nil)
  servers,  \* the http.Server of each iteration of main's loop
  gor,      \* the event goroutine of each iteration of main's loop
  events,   \* file events waiting in watcher.Events
  changes,  \* number of file changes made so far
  timer,    \* the timer of watcher.Debounce
  reqs,     \* the HTTP requests made to the process
  db        \* todos.db: how often each init fragment was executed on it

routeVars == <<req, routeId, calls>>
buildVars == <<disk, mpc, build, muxes, handler>>
srvVars == <<servers, gor, events, changes, timer, reqs>>
vars == <<req, routeId, calls, disk, mpc, build, muxes, handler,
          servers, gor, events, changes, timer, reqs, db>>

None == <<0>>
NoBuild == [state |-> "none"]

\* The names of the init fragments of the template files: "init-todos",
\* "init-index", "init-_layout".
S_init_todos == <<105, 110, 105, 116, 45, 116, 111, 100, 111, 115>>
S_init_index == <<105, 110, 105, 116, 45, 105, 110, 100, 101, 120>>
S_init_layout == <<105, 110, 105, 116, 45, 95, 108, 97, 121, 111, 117, 116>>
InitFrags == {S_init_index, S_init_todos, S_init_layout}

\* todos.db before any init fragment was executed on it.
NewStore == [f \in InitFrags |-> 0]

(***************************************************************************)
(* Bounds of the model.                                                    *)
(***************************************************************************)
MaxParams == 2
MaxRequests == 1
MaxChanges == 1
MaxCalls == 2
MaxConcurrent == 2
DelayTicks == 2

NewRequest ==
  [pc |-> "new", path |-> None, r |-> None, phase |-> "", srv |-> 0, mux |-> 0,
   started |-> <<>>, tmpl |-> <<>>, id |-> None, frag |-> None,
   parsed |-> FALSE, form |-> None, postForm |-> None, formErr |-> FALSE,
   executed |-> FALSE,
   helpers |-> 0, out |-> 0, kept |-> 0, appended |-> 0, status |-> 0,
   err |-> FALSE,
   log |-> ""]

\* Before main has started a server: no server, no goroutine, no request.
NoServer ==
  /\ servers = <<>>
  /\ gor = <<>>
  /\ events = 0
  /\ changes = 0
  /\ timer = "off"
  /\ reqs = [i \in 1..MaxRequests |-> NewRequest]

(***************************************************************************)
(* Byte strings.                                                           *)
(***************************************************************************)
Hyphen == 45
Underscore == 95

S_true == <<116, 114, 117, 101>>
S_True == <<84, 114, 117, 101>>
S_TRUE == <<84, 82, 85, 69>>
S_1 == <<49>>
S_empty == <<>>
S_htmx == <<104, 116, 109, 120>>
S_http == <<104, 116, 116, 112>>
S_GET == <<71, 69, 84>>
S_POST == <<80, 79, 83, 84>>
S_DELETE == <<68, 69, 76, 69, 84, 69>>
S_PUT == <<80, 85, 84>>
S_PATCH == <<80, 65, 84, 67, 72>>
S_MSEARCH == <<77, 45, 83, 69, 65, 82, 67, 72>>
S_id == <<105, 100>>
S_ID == <<73, 68>>
S_iD == <<105, 68>>
S_tYPe == <<116, 89, 80, 101>>
S_nav == <<110, 97, 118>>
S_cache == <<95, 99, 97, 99, 104, 101>>
S_a_b == <<97, 45, 98>>
S_5 == <<53>>

Methods == {S_GET, S_POST, S_DELETE, S_MSEARCH}
\* The values stored under the key HX-Request: none, one, or several.
HxHeaders ==
  {<<>>, <<S_true>>, <<S_True>>, <<S_TRUE>>, <<S_1>>, <<S_empty>>,
   <<S_true, S_1>>, <<S_1, S_true>>}
ParamNames == {S_id, S_ID, S_iD, S_tYPe, S_nav, S_cache, S_a_b}
ParamValues == {S_5, S_empty}

SeqsUpTo(S, n) == UNION {[1..k -> S] : k \in 0..n}

Params == [name : ParamNames, value : ParamValues]

\* A request as GetRouteId sees it: r.Method, the values of r.Header under
\* the key HX-Request, and the name=value pairs of r.URL.RawQuery in order.
Requests ==
  [method : Methods,
   hx : HxHeaders,
   query : SeqsUpTo(Params, MaxParams)]

\* http.Header.Get: the first value stored under the key, "" when absent.
HeaderGet(r) == IF Len(r.hx) = 0 THEN S_empty ELSE r.hx[1]

\* url.URL.Query: the map from each parameter name to its values in order.
Query(r) ==
  [n \in {r.query[i].name : i \in 1..Len(r.query)} |->
     LET idx == {i \in 1..Len(r.query) : r.query[i].name = n}
         RECURSIVE vals(_)
         vals(k) == IF k > Len(r.query) THEN <<>>
                    ELSE IF k \in idx THEN <<r.query[k].value>> \o vals(k + 1)
                    ELSE vals(k + 1)
     IN vals(1)]

\* maps.Keys: the keys of the map as a slice, in an unspecified order.
RECURSIVE Orders(_)
Orders(S) ==
  IF S = {} THEN {<<>>}
  ELSE UNION {{<<x>> \o s : s \in Orders(S \ {x})} : x \in S}

\* One key per value stored in the map instead of one per name.
MapKeysPerValue(m) ==
  LET slots == UNION {{<<n, k>> : k \in 1..Len(m[n])} : n \in DOMAIN m}
  IN {[i \in 1..Len(o) |-> o[i][1]] : o \in Orders(slots)}

MapKeys(m) == Orders(DOMAIN m)

\* Go's < on strings: bytewise lexicographic.
RECURSIVE StrLess(_, _)
StrLess(a, b) ==
  IF Len(b) = 0 THEN FALSE
  ELSE IF Len(a) = 0 THEN TRUE
  ELSE IF a[1] # b[1] THEN a[1] < b[1]
  ELSE StrLess(Tail(a), Tail(b))

\* sort.Strings: ascending by <.
RECURSIVE SortInsert(_, _)
SortInsert(sorted, s) ==
  IF Len(sorted) = 0 THEN <<s>>
  ELSE IF StrLess(s, sorted[1]) THEN <<s>> \o sorted
  ELSE <<sorted[1]>> \o SortInsert(Tail(sorted), s)

\* The keys left in the order maps.Keys returned them.
SortStringsSkipped(keys) == keys

RECURSIVE SortStrings(_)
SortStrings(keys) ==
  IF Len(keys) = 0 THEN <<>>
  ELSE SortInsert(SortStrings(Tail(keys)), keys[1])

\* strings.HasPrefix(s, "_")
HasPrefixUnderscore(s) == Len(s) > 0 /\ s[1] = Underscore

\* The filter loop without the copy keys[i] = keys[j].
RECURSIVE FilterLoopNoCopy(_, _, _)
FilterLoopNoCopy(keys, i, j) ==
  IF j >= Len(keys) THEN SubSeq(keys, 1, i)
  ELSE IF ~HasPrefixUnderscore(keys[j + 1])
       THEN FilterLoopNoCopy(keys, i + 1, j + 1)
       ELSE FilterLoopNoCopy(keys, i, j + 1)

\* The in-place filter loop of GetRouteId: i kept so far, j the read index
\* (both 0-based in the Go code, keys[i] = keys[j]; i++), then keys[:i].
RECURSIVE FilterLoop(_, _, _)
FilterLoop(keys, i, j) ==
  IF j >= Len(keys) THEN SubSeq(keys, 1, i)
  ELSE IF ~HasPrefixUnderscore(keys[j + 1])
       THEN FilterLoop([keys EXCEPT ![i + 1] = keys[j + 1]], i + 1, j + 1)
       ELSE FilterLoop(keys, i, j + 1)

FilterKeys(keys) == FilterLoop(keys, 0, 0)

\* Every part followed by the separator.
RECURSIVE JoinTrailing(_)
JoinTrailing(parts) ==
  IF Len(parts) = 0 THEN <<>>
  ELSE parts[1] \o <<Hyphen>> \o JoinTrailing(Tail(parts))

\* strings.Join(parts, "-")
RECURSIVE Join(_)
Join(parts) ==
  IF Len(parts) = 0 THEN <<>>
  ELSE IF Len(parts) = 1 THEN parts[1]
  ELSE parts[1] \o <<Hyphen>> \o Join(Tail(parts))

\* Lowercasing left out.
ToLowerSkipped(s) == s

\* strings.ToLower on ASCII bytes.
ToLower(s) == [i \in 1..Len(s) |-> IF s[i] \in 65..90 THEN s[i] + 32 ELSE s[i]]

\* The marker header compared case-insensitively.
PrefixFold(r) == IF ToLower(HeaderGet(r)) = S_true THEN S_htmx ELSE S_http

\* prefix: htmx when r.Header.Get("HX-Request") == "true", else http.
Prefix(r) == IF HeaderGet(r) = S_true THEN S_htmx ELSE S_http

\* GetRouteId, given the order in which maps.Keys returned the keys.
GetRouteIdFrom(r, keys) ==
  ToLower(Join(<<Prefix(r), r.method>> \o FilterKeys(SortStrings(keys))))

\* The route ids GetRouteId can return for r, over all orders of maps.Keys.
RouteIds(r) == {GetRouteIdFrom(r, keys) : keys \in MapKeys(Query(r))}

GetRouteId(r) == CHOOSE id \in RouteIds(r) : TRUE

(***************************************************************************)
(* SpecRoute: GetRouteId applied to every request of the bounded set.      *)
(***************************************************************************)
InitRoute ==
  /\ req \in Requests
  /\ routeId = None
  /\ calls = 0
  /\ disk = <<>>
  /\ mpc = "idle"
  /\ build = NoBuild
  /\ db = NewStore
  /\ muxes = <<>>
  /\ handler = 0
  /\ NoServer

\* routeId := GetRouteId(r), first call on the request.
\* The underscore filter taken to work on the parameters of the request
\* itself.
RequestAfterFiltered(r, keys) ==
  [r EXCEPT !.query = SelectSeq(r.query, LAMBDA p : ~HasPrefixUnderscore(p.name))]

\* The request after a call of GetRouteId: the function assigns only to
\* its locals prefix, keys and routeparts; keys is the fresh slice made by
\* maps.Keys from the fresh map made by r.URL.Query().
RequestAfter(r, keys) == r

Derive ==
  /\ calls = 0
  /\ \E keys \in MapKeys(Query(req)) :
       /\ routeId' = GetRouteIdFrom(req, keys)
       /\ req' = RequestAfter(req, keys)
  /\ calls' = 1
  /\ UNCHANGED buildVars
  /\ UNCHANGED srvVars
  /\ UNCHANGED db

\* A further call of GetRouteId on the same request.
DeriveAgain ==
  /\ calls >= 1
  /\ calls < MaxCalls
  /\ \E keys \in MapKeys(Query(req)) :
       /\ routeId' = GetRouteIdFrom(req, keys)
       /\ req' = RequestAfter(req, keys)
  /\ calls' = calls + 1
  /\ UNCHANGED buildVars
  /\ UNCHANGED srvVars
  /\ UNCHANGED db

NextRoute == Derive

SpecRoute == InitRoute /\ [][NextRoute]_vars

(***************************************************************************)
(* SpecCalls: GetRouteId called several times on the same request.         *)
(***************************************************************************)
CallRequests ==
  [method : {S_GET, S_DELETE},
   hx : {<<>>, <<S_true>>},
   query : SeqsUpTo(Params, MaxParams)]

InitCalls ==
  /\ req \in CallRequests
  /\ routeId = None
  /\ calls = 0
  /\ disk = <<>>
  /\ mpc = "idle"
  /\ build = NoBuild
  /\ db = NewStore
  /\ muxes = <<>>
  /\ handler = 0
  /\ NoServer

NextCalls == Derive \/ DeriveAgain

SpecCalls == InitCalls /\ [][NextCalls]_vars


(***************************************************************************)
(* The templates directory and NewHandler / TemplateHandler construction.  *)
(***************************************************************************)
S_layout_html == <<95, 108, 97, 121, 111, 117, 116, 46, 104, 116, 109, 108>>
S_index_html == <<105, 110, 100, 101, 120, 46, 104, 116, 109, 108>>
S_todos_html == <<116, 111, 100, 111, 115, 46, 104, 116, 109, 108>>
S_app_css == <<97, 112, 112, 46, 99, 115, 115>>
S_dot_html == <<46, 104, 116, 109, 108>>
S_init == <<105, 110, 105, 116, 45>>
S_slash == <<47>>
S_http_get == <<104, 116, 116, 112, 45, 103, 101, 116>>
S_htmx_get_nav == <<104, 116, 109, 120, 45, 103, 101, 116, 45, 110, 97, 118>>
S_body == <<98, 111, 100, 121>>

Dot == 46

\* The content of a file that does not parse as a template.
Broken == {<<0>>}

HasSuffix(s, suf) ==
  Len(s) >= Len(suf) /\ SubSeq(s, Len(s) - Len(suf) + 1, Len(s)) = suf

\* fs.Glob(templateFS, "_*.html"): the matching names of the directory.
MatchShared(f) == Len(f) >= 6 /\ f[1] = Underscore /\ HasSuffix(f, S_dot_html)

\* fs.Glob(templateFS, "[^_]*.html")
MatchPage(f) == Len(f) >= 6 /\ f[1] # Underscore /\ HasSuffix(f, S_dot_html)

\* The set S as the sequence sorted by <, as fs.Glob (which reads the
\* directory sorted by name) and sort.Strings return it.
RECURSIVE SortedSeq(_)
SortedSeq(S) ==
  IF S = {} THEN <<>>
  ELSE LET m == CHOOSE x \in S : \A y \in S \ {x} : StrLess(x, y)
       IN <<m>> \o SortedSeq(S \ {m})

SharedFiles(d) == SortStrings(SortedSeq({f \in DOMAIN d : MatchShared(f)}))
PageFiles(d) == SortedSeq({f \in DOMAIN d : MatchPage(f)})

\* filepath.Ext: the suffix starting at the last dot, "" without a dot.
RECURSIVE Ext(_)
Ext(f) ==
  IF Len(f) = 0 THEN <<>>
  ELSE LET rest == Ext(Tail(f))
       IN IF Len(rest) > 0 THEN rest
          ELSE IF f[1] = Dot THEN f ELSE <<>>

\* strings.TrimSuffix
TrimSuffix(s, suf) ==
  IF HasSuffix(s, suf) THEN SubSeq(s, 1, Len(s) - Len(suf)) ELSE s

\* The route NewHandler registers the page under: "/" for index.html, else
\* "/" + the file name without its extension.
Route(pageFile) ==
  LET path == IF pageFile = S_index_html THEN S_slash ELSE S_slash \o pageFile
  IN TrimSuffix(path, Ext(path))

\* files := append(append([]string(nil), sharedFiles...), pageFile)
FileList(shared, pageFile) == shared \o <<pageFile>>

\* template.ParseFS fails when a file is missing or does not parse.
ParseFails(d, files) ==
  \E i \in 1..Len(files) : files[i] \notin DOMAIN d \/ d[files[i]] = Broken

\* The template set ParseFS builds from files whose definitions all have a
\* body, as the files of the directories d have: each defined name is bound
\* to the last file of the list that defines it.
TemplateSet(d, files) ==
  LET names == UNION {d[files[i]] : i \in 1..Len(files)}
  IN [n \in names |->
        files[CHOOSE i \in 1..Len(files) :
                /\ n \in d[files[i]]
                /\ \A j \in (i + 1)..Len(files) : n \notin d[files[j]]]]

\* name := strings.TrimSuffix(filepath.Base(file), filepath.Ext(file));
\* the fragment looked up is "init-" + name.
InitName(file) == S_init \o TrimSuffix(file, Ext(file))

\* Only the init fragment of the page file (the last of the list) is run.
InitRunsPageOnly(tmpl, files) ==
  LET file == files[Len(files)]
  IN IF InitName(file) \in DOMAIN tmpl
     THEN <<[frag |-> InitName(file), file |-> tmpl[InitName(file)]]>>
     ELSE <<>>

\* The loop over files taken from the last file to the first.
RECURSIVE InitRunsReversed(_, _)
InitRunsReversed(tmpl, files) ==
  IF Len(files) = 0 THEN <<>>
  ELSE InitRunsReversed(tmpl, Tail(files))
       \o (IF InitName(files[1]) \in DOMAIN tmpl
           THEN <<[frag |-> InitName(files[1]), file |-> tmpl[InitName(files[1])]]>>
           ELSE <<>>)

\* The init fragments TemplateHandler executes, in the order of its loop
\* over files: those with tmpl.Lookup("init-" + name) != nil.
RECURSIVE InitRuns(_, _)
InitRuns(tmpl, files) ==
  IF Len(files) = 0 THEN <<>>
  ELSE (IF InitName(files[1]) \in DOMAIN tmpl
        THEN <<[frag |-> InitName(files[1]), file |-> tmpl[InitName(files[1])]]>>
        ELSE <<>>)
       \o InitRuns(tmpl, Tail(files))

Tag(runs, page) == [i \in 1..Len(runs) |-> [page |-> page, frag |-> runs[i].frag, file |-> runs[i].file]]

\* The init fragments run only when todos.db has no execution of them yet.
ExecutedOncePerProcess(store, inits) ==
  SelectSeq(inits, LAMBDA x : store[x.frag] = 0)

\* The init fragments TemplateHandler executes of those it finds: the loop
\* keeps no record of earlier executions, it runs every one it finds.
Executed(store, inits) == inits

\* What executing init fragments leaves in todos.db (cozo.New("sqlite",
\* "todos.db", nil) opens the same file in every NewHandler call): one
\* more execution of each fragment run.
Effects(store, runs) ==
  [f \in DOMAIN store |->
     store[f] + Cardinality({i \in 1..Len(runs) : runs[i].frag = f})]

\* The mux of a construction that returned an error: nothing refers to it.
FailedMux == [routes |-> <<>>, state |-> "failed", inits |-> 0]

\* NewHandler up to the loop over pageFiles: cozo.New, fs.Sub, the two
\* fs.Glob calls.
NewHandlerStart ==
  /\ mpc \in {"init_build", "reload_build"}
  /\ build.state = "none"
  /\ \E dbOk \in BOOLEAN :
       build' = [state |-> IF dbOk THEN "pages" ELSE "failed",
                 why |-> IF dbOk THEN "" ELSE "db",
                 id |-> Len(muxes) + 1,
                 shared |-> SharedFiles(disk),
                 pages |-> PageFiles(disk),
                 idx |-> 1,
                 runs |-> <<>>]
  /\ muxes' = Append(muxes, IF build'.state = "failed" THEN FailedMux
                            ELSE [routes |-> <<>>, state |-> "building", inits |-> 0])
  /\ UNCHANGED <<disk, mpc, handler>>
  /\ UNCHANGED routeVars
  /\ UNCHANGED srvVars
  /\ UNCHANGED db

\* One iteration of the loop over pageFiles: TemplateHandler(templateFS,
\* files, funcs) and handler.Handle(route, pageHandler). The init
\* fragments run in order until the first that returns an error.
NewHandlerPage ==
  /\ build.state = "pages"
  /\ build.idx <= Len(build.pages)
  /\ LET pageFile == build.pages[build.idx]
         files == FileList(build.shared, pageFile)
     IN IF ParseFails(disk, files)
        THEN /\ build' = [build EXCEPT !.state = "failed", !.why = "parse"]
             /\ muxes' = [muxes EXCEPT ![build.id] = FailedMux]
             /\ UNCHANGED db
        ELSE LET tmpl == TemplateSet(disk, files)
                 inits == Executed(db, Tag(InitRuns(tmpl, files), pageFile))
             IN \/ /\ build' = [build EXCEPT !.idx = @ + 1, !.runs = @ \o inits]
                   /\ db' = Effects(db, inits)
                   /\ muxes' = [muxes EXCEPT
                        ![build.id].inits = @ + Len(inits),
                        ![build.id].routes =
                           [r \in DOMAIN @ \cup {Route(pageFile)} |->
                              IF r = Route(pageFile)
                              THEN [files |-> files, tmpl |-> tmpl]
                              ELSE @[r]]]
                \/ \E k \in 1..Len(inits) :
                     /\ build' = [build EXCEPT !.state = "failed", !.why = "init",
                                               !.runs = @ \o SubSeq(inits, 1, k)]
                     /\ muxes' = [muxes EXCEPT ![build.id] = FailedMux]
                     /\ db' = Effects(db, SubSeq(inits, 1, k))
  /\ UNCHANGED <<disk, mpc, handler>>
  /\ UNCHANGED routeVars
  /\ UNCHANGED srvVars

\* return handler, nil
NewHandlerReturn ==
  /\ build.state = "pages"
  /\ build.idx > Len(build.pages)
  /\ build' = [build EXCEPT !.state = "returned"]
  /\ muxes' = [muxes EXCEPT ![build.id].state = "returned"]
  /\ UNCHANGED <<disk, mpc, handler>>
  /\ UNCHANGED routeVars
  /\ UNCHANGED srvVars
  /\ UNCHANGED db

\* The mux handed to the caller whether or not a page failed.
NewHandlerResultNoErr(b) == [handler |-> b.id, err |-> FALSE]

\* What NewHandler hands to its caller: (handler, nil) or (nil, err).
NewHandlerResult(b) ==
  IF b.state = "failed" THEN [handler |-> 0, err |-> TRUE]
  ELSE [handler |-> b.id, err |-> FALSE]

\* main lines 44-47: handler, err := NewHandler(); log.Fatal on error.
MainInitBuilt ==
  /\ mpc = "init_build"
  /\ build.state \in {"returned", "failed"}
  /\ LET res == NewHandlerResult(build)
     IN IF res.err
        THEN /\ mpc' = "fatal"
             /\ UNCHANGED handler
        ELSE /\ mpc' = "loop"
             /\ handler' = res.handler
  /\ build' = NoBuild
  /\ UNCHANGED <<disk, muxes>>
  /\ UNCHANGED routeVars
  /\ UNCHANGED srvVars
  /\ UNCHANGED db

(***************************************************************************)
(* SpecBuild: one NewHandler call on every directory of the bounded set.   *)
(***************************************************************************)
Contents == {c \cup x : c \in SUBSET InitFrags, x \in {{}, {S_http_get}}} \cup {Broken}

TemplateFiles == {S_layout_html, S_index_html, S_todos_html}

\* Every directory with some of the template files, each with any content,
\* with or without a file that is no template.
Disks ==
  UNION {{[f \in DOMAIN t \cup X |-> IF f \in X THEN {} ELSE t[f]] :
            t \in [D -> Contents], X \in {{}, {S_app_css}}} :
           D \in SUBSET TemplateFiles}

InitBuild ==
  /\ disk \in Disks
  /\ mpc = "init_build"
  /\ build = NoBuild
  /\ db = NewStore
  /\ muxes = <<>>
  /\ handler = 0
  /\ NoServer
  /\ req = None
  /\ routeId = None
  /\ calls = 0

NextBuild == NewHandlerStart \/ NewHandlerPage \/ NewHandlerReturn \/ MainInitBuilt

SpecBuild == InitBuild /\ [][NextBuild]_vars

(***************************************************************************)
(* SpecParse: the template sets NewHandler parses for the pages of a       *)
(* directory whose files define fragments with and without a body.         *)
(***************************************************************************)
S_base_html == <<95, 98, 97, 115, 101, 46, 104, 116, 109, 108>>

\* One Parse call of ParseFS, for one file: each {{define}} of the file is
\* added to the set under its name (text/template associate), except that a
\* definition whose body is empty (white space and comments only) does not
\* replace a template the set already has under that name.
Associate(set, file, defs) ==
  [n \in DOMAIN set \cup {x.name : x \in defs} |->
     IF \E x \in defs : x.name = n
     THEN LET x == CHOOSE y \in defs : y.name = n
          IN IF n \in DOMAIN set /\ x.empty
             THEN set[n]
             ELSE [file |-> file, empty |-> x.empty]
     ELSE set[n]]

\* template.New(name).Funcs(funcs).ParseFS(fs, files...): the files are
\* parsed one after the other, in the order of the list.
RECURSIVE ParseFiles(_, _, _)
ParseFiles(set, d, files) ==
  IF Len(files) = 0 THEN set
  ELSE ParseFiles(Associate(set, files[1], d[files[1]]), d, Tail(files))

\* What a file can define: each of the names at most once with a body
\* (two such definitions in one file do not parse), with or without it.
DefNames == {S_body, S_http_get}
Definitions == [name : DefNames, empty : BOOLEAN]
FileDefs ==
  {D \in SUBSET Definitions : \A x, y \in D : x.name = y.name => x = y}

ParseFileNames == {S_layout_html, S_base_html, S_todos_html, S_index_html}

ParseDisks == UNION {[D -> FileDefs] : D \in SUBSET ParseFileNames}

\* NewHandler up to its loop: the two fs.Glob calls and sort.Strings.
ParseGlob ==
  /\ mpc = "init_build"
  /\ build.state = "none"
  /\ build' = [state |-> "pages", shared |-> SharedFiles(disk),
               pages |-> PageFiles(disk), idx |-> 1, sets |-> <<>>]
  /\ UNCHANGED <<disk, mpc, muxes, handler>>
  /\ UNCHANGED routeVars
  /\ UNCHANGED srvVars
  /\ UNCHANGED db

\* One iteration of the loop over pageFiles, up to the template set:
\* files := append(append([]string(nil), sharedFiles...), pageFile) and
\* the ParseFS call of TemplateHandler.
ParsePage ==
  /\ mpc = "init_build"
  /\ build.state = "pages"
  /\ build.idx <= Len(build.pages)
  /\ LET pageFile == build.pages[build.idx]
         files == FileList(build.shared, pageFile)
     IN build' = [build EXCEPT
                    !.idx = @ + 1,
                    !.sets = Append(@, [page |-> pageFile, files |-> files,
                                        tmpl |-> ParseFiles(<<>>, disk, files)])]
  /\ UNCHANGED <<disk, mpc, muxes, handler>>
  /\ UNCHANGED routeVars
  /\ UNCHANGED srvVars
  /\ UNCHANGED db

InitParse ==
  /\ disk \in ParseDisks
  /\ mpc = "init_build"
  /\ build = NoBuild
  /\ db = NewStore
  /\ muxes = <<>>
  /\ handler = 0
  /\ NoServer
  /\ req = None
  /\ routeId = None
  /\ calls = 0

NextParse == ParseGlob \/ ParsePage

SpecParse == InitParse /\ [][NextParse]_vars

(***************************************************************************)
(* main's server loop, the event goroutine and the requests.               *)
(***************************************************************************)
S_todos_path == <<47, 116, 111, 100, 111, 115>>

Iter == Len(servers)

\* The process runs until main returns or log.Fatal exits.
Alive == mpc \notin {"bye", "fatal"}

\* for { server := http.Server{Handler: handler, ...};
\*       action := make(chan string); go func() {...}()
MainLoopTop ==
  /\ mpc = "loop"
  /\ servers' = Append(servers, [handler |-> handler, lis |-> "new", shut |-> FALSE])
  /\ gor' = Append(gor, [pc |-> "select", act |-> ""])
  /\ mpc' = "listen"
  /\ UNCHANGED <<disk, build, muxes, handler, events, changes, timer, reqs>>
  /\ UNCHANGED routeVars
  /\ UNCHANGED db

\* server.ListenAndServe() is entered: it returns ErrServerClosed at once
\* when Shutdown was already called, fails (log.Fatal) when it cannot
\* listen, and otherwise listens and serves.
MainListen ==
  /\ mpc = "listen"
  /\ IF servers[Iter].shut
     THEN mpc' = "recv" /\ UNCHANGED servers
     ELSE \/ /\ servers' = [servers EXCEPT ![Iter].lis = "listening"]
             /\ mpc' = "serving"
          \/ /\ mpc' = "fatal"
             /\ UNCHANGED servers
  /\ UNCHANGED <<disk, build, muxes, handler, gor, events, changes, timer, reqs>>
  /\ UNCHANGED routeVars
  /\ UNCHANGED db

\* server.ListenAndServe() returns http.ErrServerClosed after Shutdown.
MainServeReturn ==
  /\ mpc = "serving"
  /\ servers[Iter].shut
  /\ mpc' = "recv"
  /\ UNCHANGED <<disk, build, muxes, handler, servers, gor, events, changes, timer, reqs>>
  /\ UNCHANGED routeVars
  /\ UNCHANGED db

\* A switch whose every case continues the loop.
AfterActionContinue(act) == "debounce"

\* The switch on the received action: where main goes next.
AfterAction(act) ==
  CASE act = "reload" -> "debounce"
    [] act = "shutdown" -> "bye"
    [] OTHER -> "bye"

\* switch <-action, together with the goroutine's action <- act (after
\* which the goroutine only calls cancel() and ends); for "reload" main
\* enters watcher.Debounce.
MainRecvAction ==
  /\ mpc = "recv"
  /\ gor[Iter].pc = "send"
  /\ gor' = [gor EXCEPT ![Iter].pc = "done"]
  /\ mpc' = AfterAction(gor[Iter].act)
  /\ UNCHANGED <<disk, build, muxes, handler, servers, events, changes, timer, reqs>>
  /\ UNCHANGED routeVars
  /\ UNCHANGED db

\* The whole call watcher.Debounce(config.ReloadDebounceDelay): it takes
\* the events that reach it before its timer fires, any number of those
\* pending, and returns.
MainDebounce ==
  /\ mpc = "debounce"
  /\ \E n \in 0..events : events' = events - n
  /\ mpc' = "reload_build"
  /\ UNCHANGED <<disk, build, muxes, handler, servers, gor, changes, timer, reqs>>
  /\ UNCHANGED routeVars
  /\ UNCHANGED db

\* The timer of one Debounce call, with the time in ticks of which delay
\* has DelayTicks: left is the time until the timer expires, quiet the time
\* (up to DelayTicks) since Debounce began or last took an event, taken the
\* number of events the call has received from watcher0.Events.
\* t := time.NewTimer(delay)
NewTimer == [state |-> "pending", left |-> DelayTicks, quiet |-> 0, taken |-> 0]

\* A timer that goes on with the time it had left.
ResetKeepsLeft(t) == [t EXCEPT !.quiet = 0]

\* t.Reset(delay) after t.Stop() returned true: the full delay again.
Reset(t) == [t EXCEPT !.state = "pending", !.left = DelayTicks, !.quiet = 0]

\* One tick passes while the timer is pending.
Tick ==
  /\ mpc = "debounce"
  /\ timer.state = "pending"
  /\ timer.left > 0
  /\ timer' = [timer EXCEPT !.left = @ - 1,
                            !.quiet = IF @ < DelayTicks THEN @ + 1 ELSE @]
  /\ UNCHANGED <<disk, mpc, build, muxes, handler, servers, gor, events, changes, reqs>>
  /\ UNCHANGED routeVars
  /\ UNCHANGED db

\* The timer of Debounce expires: a value is put in t.C.
TimerFires ==
  /\ mpc = "debounce"
  /\ timer.state = "pending"
  /\ timer.left = 0
  /\ timer' = [timer EXCEPT !.state = "fired"]
  /\ UNCHANGED <<disk, mpc, build, muxes, handler, servers, gor, events, changes, reqs>>
  /\ UNCHANGED routeVars
  /\ UNCHANGED db

\* Debounce, case <-watcher0.Events: t.Stop() is true while the timer is
\* pending (Reset and continue) and false once it has fired (<-t.C, which
\* holds the value, and break).
DebounceEvent ==
  /\ mpc = "debounce"
  /\ events > 0
  /\ events' = events - 1
  /\ IF timer.state = "pending"
     THEN /\ timer' = [Reset(timer) EXCEPT !.taken = @ + 1]
          /\ UNCHANGED mpc
     ELSE /\ timer' = [timer EXCEPT !.state = "off", !.taken = @ + 1]
          /\ mpc' = "reload_build"
  /\ UNCHANGED <<disk, build, muxes, handler, servers, gor, changes, reqs>>
  /\ UNCHANGED routeVars
  /\ UNCHANGED db

\* Debounce, case <-t.C: break.
DebounceTimeout ==
  /\ mpc = "debounce"
  /\ timer.state = "fired"
  /\ timer' = [timer EXCEPT !.state = "off"]
  /\ mpc' = "reload_build"
  /\ UNCHANGED <<disk, build, muxes, handler, servers, gor, events, changes, reqs>>
  /\ UNCHANGED routeVars
  /\ UNCHANGED db

\* The handler installed without looking at err.
ReloadedHandlerUnchecked(old, res) == res.handler

\* if err != nil { log.Printf(...) } else { handler = newHandler }
ReloadedHandler(old, res) == IF res.err THEN old ELSE res.handler

\* A mux that was replaced as the handler: only requests in flight still
\* use its template sets, which they hold themselves.
ReplacedMux == [routes |-> <<>>, state |-> "replaced", inits |-> 0]

\* case "reload": after newHandler, err := NewHandler(); continue server
MainReloadBuilt ==
  /\ mpc = "reload_build"
  /\ build.state \in {"returned", "failed"}
  /\ handler' = ReloadedHandler(handler, NewHandlerResult(build))
  /\ mpc' = "loop"
  /\ build' = NoBuild
  /\ muxes' = IF handler' \in DOMAIN muxes /\ handler' # handler
               THEN [muxes EXCEPT ![handler] = ReplacedMux]
               ELSE muxes
  /\ UNCHANGED disk
  /\ UNCHANGED srvVars
  /\ UNCHANGED routeVars
  /\ UNCHANGED db

\* The goroutine sending its action first and shutting the server down
\* after that.
AfterSelectSend == "send"

\* Where the goroutine goes after its select: to ctx, cancel :=
\* context.WithTimeout(...) and server.Shutdown(ctx); the send of the
\* action comes after Shutdown has returned.
AfterSelect == "shutdown"

\* The goroutine's select, case event := <-watcher.Events
GoFileEvent(it) ==
  /\ Alive
  /\ gor[it].pc = "select"
  /\ events > 0
  /\ events' = events - 1
  /\ gor' = [gor EXCEPT ![it] = [pc |-> AfterSelect, act |-> "reload"]]
  /\ UNCHANGED <<servers, changes, timer, reqs>>
  /\ UNCHANGED buildVars
  /\ UNCHANGED routeVars
  /\ UNCHANGED db

\* The goroutine's select, case sig := <-sigterm. The channel is
\* unbuffered: a signal is delivered only to a goroutine waiting in select.
GoSignal(it) ==
  /\ Alive
  /\ gor[it].pc = "select"
  /\ gor' = [gor EXCEPT ![it] = [pc |-> AfterSelect, act |-> "shutdown"]]
  /\ UNCHANGED <<servers, events, changes, timer, reqs>>
  /\ UNCHANGED buildVars
  /\ UNCHANGED routeVars
  /\ UNCHANGED db

\* A Shutdown that leaves the listener open.
ShutdownListenerKept(lis) == lis

\* What server.Shutdown does to the listener at once, before it waits for
\* the connections: an open listener is closed.
ShutdownListener(lis) == IF lis = "listening" THEN "closed" ELSE lis

\* server.Shutdown(ctx) begins: the server is marked as shutting down and
\* its listener is closed.
GoShutdown(it) ==
  /\ Alive
  /\ gor[it].pc = "shutdown"
  /\ servers' = [servers EXCEPT ![it].shut = TRUE,
                                ![it].lis = ShutdownListener(@)]
  /\ gor' = [gor EXCEPT ![it].pc = "draining"]
  /\ UNCHANGED <<events, changes, timer, reqs>>
  /\ UNCHANGED buildVars
  /\ UNCHANGED routeVars
  /\ UNCHANGED db

InFlight(it) ==
  {i \in 1..MaxRequests :
     reqs[i].srv = it /\ reqs[i].pc \in {"received", "executing"}}

\* server.Shutdown(ctx) returns: when no request of the server is in
\* flight, or when ctx expires after config.ShutdownDelayTolerance.
GoShutdownReturn(it) ==
  /\ Alive
  /\ gor[it].pc = "draining"
  /\ \E expired \in BOOLEAN : expired \/ InFlight(it) = {}
  /\ gor' = [gor EXCEPT ![it].pc = "send"]
  /\ UNCHANGED <<servers, events, changes, timer, reqs>>
  /\ UNCHANGED buildVars
  /\ UNCHANGED routeVars
  /\ UNCHANGED db

\* The directories the files of the running program change between.
DiskPlain ==
  (S_layout_html :> {S_http_get, S_body}) @@
  (S_index_html :> {S_body, S_init_index}) @@
  (S_todos_html :> {S_body, S_htmx_get_nav, S_init_todos})

DiskBroken == [DiskPlain EXCEPT ![S_todos_html] = Broken]

DiskMoved ==
  (S_layout_html :> {S_http_get, S_body, S_init_layout}) @@
  (S_todos_html :> {S_body, S_init_todos})

ServerDisks == {DiskPlain, DiskBroken, DiskMoved}

\* A file of ./templates or ./static is written: the directory changes and
\* the watcher gets an event.
FileChange ==
  /\ Alive
  /\ changes < MaxChanges
  /\ \E d \in ServerDisks \ {disk} : disk' = d
  /\ events' = events + 1
  /\ changes' = changes + 1
  /\ UNCHANGED <<mpc, build, muxes, handler, servers, gor, timer, reqs>>
  /\ UNCHANGED routeVars
  /\ UNCHANGED db

\* A request without a body.
NoBody == [pairs |-> <<>>, malformed |-> FALSE, unreadable |-> FALSE]

\* url.ParseQuery: the map from each name to its values in order, of the
\* pairs that could be decoded.
Values(pairs) == Query([query |-> pairs])

\* parsePostForm: for POST, PUT and PATCH the pairs of the body that could
\* be decoded (none when the body cannot be read), else nothing.
HasPostForm(r) == r.method \in {S_POST, S_PUT, S_PATCH}

PostFormPairs(r) ==
  IF HasPostForm(r) /\ ~r.body.unreadable THEN r.body.pairs ELSE <<>>

\* ParseForm keeping nothing of a query or body it could not decode in
\* full.
ParseFormAllOrNothing(r) ==
  LET err == r.malformed \/ (HasPostForm(r) /\ (r.body.unreadable \/ r.body.malformed))
  IN [postForm |-> IF err THEN <<>> ELSE Values(PostFormPairs(r)),
      form |-> IF err THEN <<>> ELSE Values(PostFormPairs(r) \o r.query),
      err |-> err]

\* http.Request.ParseForm: r.PostForm from the body, r.Form from the body
\* values followed by those of r.URL.RawQuery; both hold every pair that
\* could be decoded, and the error is the first one met.
ParseForm(r) ==
  [postForm |-> Values(PostFormPairs(r)),
   form |-> Values(PostFormPairs(r) \o r.query),
   err |-> r.malformed \/ (HasPostForm(r) /\ (r.body.unreadable \/ r.body.malformed))]

\* The requests clients make.
ServedRequests ==
  {[path |-> S_slash,
    r |-> [method |-> S_GET, hx |-> <<>>, query |-> <<>>,
           malformed |-> FALSE, body |-> NoBody]],
   [path |-> S_todos_path,
    r |-> [method |-> S_GET, hx |-> <<S_true>>,
           query |-> <<[name |-> S_nav, value |-> S_empty]>>,
           malformed |-> FALSE, body |-> NoBody]]}

\* The routes of the handler a server was made with; a nil handler stands
\* for http.DefaultServeMux, on which this program registers nothing.
RoutesOf(m) == IF m = 0 THEN <<>> ELSE muxes[m].routes

\* http.ServeMux: the handler registered for the path; the pattern "/"
\* matches every path no other pattern matches.
MuxMatch(routes, path) ==
  IF path \in DOMAIN routes THEN {path}
  ELSE IF S_slash \in DOMAIN routes THEN {S_slash}
  ELSE {}

\* What main is doing: rebuilding the handler after a file change
\* (Debounce and NewHandler of case "reload"), or something else.
Phase == IF mpc \in {"debounce", "reload_build"} THEN "rebuild" ELSE "other"

\* A client sends a request: refused when no server of the process is
\* listening; otherwise the listening server accepts it and its mux hands
\* it to the page handler of the path (or answers 404 itself).
Issue(i) ==
  /\ Alive
  /\ reqs[i].pc = "new"
  /\ \A j \in 1..(i - 1) : reqs[j].pc # "new"
  /\ \E sr \in ServedRequests :
       LET lis == {it \in 1..Len(servers) : servers[it].lis = "listening"}
           base == [reqs[i] EXCEPT !.path = sr.path, !.r = sr.r]
       IN IF lis = {}
          THEN reqs' = [reqs EXCEPT ![i] =
                 [base EXCEPT !.pc = "refused", !.phase = Phase]]
          ELSE \E it \in lis :
                 LET m == servers[it].handler
                     match == MuxMatch(RoutesOf(m), sr.path)
                 IN IF match = {}
                    THEN reqs' = [reqs EXCEPT ![i] =
                           [base EXCEPT !.pc = "muxnotfound", !.srv = it, !.mux = m,
                                        !.status = 404]]
                    ELSE \E p \in match :
                           reqs' = [reqs EXCEPT ![i] =
                             [base EXCEPT !.pc = "received", !.srv = it, !.mux = m,
                                          !.started = RoutesOf(m)[p].tmpl,
                                          !.tmpl = RoutesOf(m)[p].tmpl]]
  /\ UNCHANGED <<servers, gor, events, changes, timer>>
  /\ UNCHANGED buildVars
  /\ UNCHANGED routeVars
  /\ UNCHANGED db

\* The nil test made on the template set instead of on the looked-up
\* template.
LookupSetNotNil(tmpl, id) == TRUE

\* tmpl.Lookup(routeId) != nil
Lookup(tmpl, id) == id \in DOMAIN tmpl

\* The template set looked up in the handler that main has installed now.
HandlerTmplInstalled(q) ==
  LET match == MuxMatch(RoutesOf(handler), q.path)
  IN IF match = {} THEN <<>> ELSE RoutesOf(handler)[CHOOSE p \in match : TRUE].tmpl

\* tmpl of the handler closure serving the request: the template set that
\* TemplateHandler parsed when it made the closure.
HandlerTmpl(q) == q.tmpl

\* routeId := GetRouteId(r)
RouteStep(q, keys) == [q EXCEPT !.id = GetRouteIdFrom(q.r, keys), !.pc = "routed"]

\* if t := tmpl.Lookup(routeId); t != nil {...} else { http.NotFound(w, r) };
\* on a miss the handler returns and the deferred log.Printf prints its
\* entry with the nil err.
LookupStep(q) ==
  LET tmpl == HandlerTmpl(q)
  IN IF Lookup(tmpl, q.id)
     THEN [q EXCEPT !.pc = "found", !.tmpl = tmpl,
                    !.frag = IF q.id \in DOMAIN tmpl THEN tmpl[q.id] ELSE None]
     ELSE [q EXCEPT !.pc = "notfound", !.tmpl = tmpl, !.status = 404,
                    !.log = "nil"]

\* r.ParseForm() with its result dropped, and data := struct{...}{...,
\* Form: r.Form, PostForm: r.PostForm, ...}
ParseStep(q) ==
  LET f == ParseForm(q.r)
  IN [q EXCEPT !.pc = "executing", !.parsed = TRUE, !.form = f.form,
               !.postForm = f.postForm, !.formErr = f.err]

\* The handler from its entry to the call of t.Execute, or to its return
\* on a miss.
HandleLookup(i) ==
  /\ Alive
  /\ reqs[i].pc = "received"
  /\ \E keys \in MapKeys(Query(reqs[i].r)) :
       LET q == LookupStep(RouteStep(reqs[i], keys))
       IN reqs' = [reqs EXCEPT ![i] = IF q.pc = "found" THEN ParseStep(q) ELSE q]
  /\ UNCHANGED <<servers, gor, events, changes, timer>>
  /\ UNCHANGED buildVars
  /\ UNCHANGED routeVars
  /\ UNCHANGED db

\* What t.Execute(w, data) can do: the output written, the helpers called
\* and whether it returned an error.
ExecOutcomes ==
  {[out |-> 1, helpers |-> 1, err |-> FALSE],
   [out |-> 0, helpers |-> 1, err |-> TRUE],
   [out |-> 1, helpers |-> 1, err |-> TRUE]}

\* The error passed to http.Error when Execute fails.
AfterExecuteHttpError(o) ==
  IF o.err
  THEN [kept |-> o.out, appended |-> 1,
        status |-> IF o.out = 0 THEN 500 ELSE 200, log |-> "err"]
  ELSE [kept |-> o.out, appended |-> 0, status |-> 200, log |-> "nil"]

\* After err = t.Execute(w, data) the handler returns: what Execute wrote
\* stays in the response, the handler writes nothing more and sets no
\* status, so the response has the status net/http gives a handler that
\* set none, 200; the deferred log.Printf prints err.
AfterExecute(o) ==
  [kept |-> o.out, appended |-> 0, status |-> 200,
   log |-> IF o.err THEN "err" ELSE "nil"]

\* A fragment whose execution failed taken out of the template set.
TmplAfterDropFailed(tmpl, q) ==
  IF q.pc = "failed" /\ q.id \in DOMAIN tmpl
  THEN [n \in DOMAIN tmpl \ {q.id} |-> tmpl[n]]
  ELSE tmpl

\* The template set tmpl of the closure after it served q: the closure
\* calls tmpl.Lookup and t.Execute and nothing that parses, adds or
\* redefines a template or rebinds a function of the FuncMap.
TmplAfter(tmpl, q) == tmpl

\* The requests after request i has become q: tmpl is one object, captured
\* by the closure of the page and so shared by every request that handler
\* is serving.
Served(rs, i, q) ==
  [j \in DOMAIN rs |->
     IF j = i THEN [q EXCEPT !.tmpl = TmplAfter(q.tmpl, q)]
     ELSE IF /\ rs[j].mux = q.mux
             /\ rs[j].path = q.path
             /\ rs[j].pc \in {"received", "routed", "found", "executing"}
          THEN [rs[j] EXCEPT !.tmpl = TmplAfter(rs[j].tmpl, q)]
          ELSE rs[j]]

\* err = t.Execute(w, data) and the return of the handler.
HandleExecute(i) ==
  /\ Alive
  /\ reqs[i].pc = "executing"
  /\ \E o \in ExecOutcomes :
       reqs' = Served(reqs, i,
                 [reqs[i] EXCEPT !.pc = IF o.err THEN "failed" ELSE "completed",
                                 !.executed = TRUE,
                                 !.out = o.out,
                                 !.helpers = o.helpers,
                                 !.err = o.err,
                                 !.kept = AfterExecute(o).kept,
                                 !.appended = AfterExecute(o).appended,
                                 !.status = AfterExecute(o).status,
                                 !.log = AfterExecute(o).log])
  /\ UNCHANGED <<servers, gor, events, changes, timer>>
  /\ UNCHANGED buildVars
  /\ UNCHANGED routeVars
  /\ UNCHANGED db

InitServer ==
  /\ disk \in ServerDisks
  /\ mpc = "init_build"
  /\ build = NoBuild
  /\ db = NewStore
  /\ muxes = <<>>
  /\ handler = 0
  /\ NoServer
  /\ req = None
  /\ routeId = None
  /\ calls = 0

NextServer ==
  \/ NewHandlerStart
  \/ NewHandlerPage
  \/ NewHandlerReturn
  \/ MainInitBuilt
  \/ MainLoopTop
  \/ MainListen
  \/ MainServeReturn
  \/ MainRecvAction
  \/ MainDebounce
  \/ MainReloadBuilt
  \/ FileChange
  \/ \E it \in 1..Len(gor) :
       \/ GoFileEvent(it)
       \/ GoSignal(it)
       \/ GoShutdown(it)
       \/ GoShutdownReturn(it)
  \/ \E i \in 1..MaxRequests :
       \/ Issue(i)
       \/ HandleLookup(i)
       \/ HandleExecute(i)

SpecServer == InitServer /\ [][NextServer]_vars

(***************************************************************************)
(* SpecLoopLive: main's server loop and its event goroutines alone, with   *)
(* the steps of main and of the goroutine that the Go scheduler runs.      *)
(***************************************************************************)
\* A step of an event goroutine after its select.
GoStep ==
  \E it \in 1..Len(gor) : GoShutdown(it) \/ GoShutdownReturn(it)

\* A step of main inside NewHandler.
NewHandlerStep ==
  \/ NewHandlerStart
  \/ NewHandlerPage
  \/ NewHandlerReturn

\* A step of main outside NewHandler; main is one goroutine, so at most
\* one of these is due.
MainStep ==
  \/ MainInitBuilt
  \/ MainLoopTop
  \/ MainListen
  \/ MainServeReturn
  \/ MainRecvAction
  \/ MainDebounce
  \/ MainReloadBuilt

NextLoop ==
  \/ MainStep
  \/ NewHandlerStep
  \/ FileChange
  \/ GoStep
  \/ \E it \in 1..Len(gor) :
       \/ GoFileEvent(it)
       \/ GoSignal(it)

\* main and a goroutine that is past its select run straight-line code:
\* ListenAndServe is entered and returns once the server is shut down, the
\* receive is made, Debounce returns once the events have stopped,
\* Shutdown is called and returns at the latest when its context expires.
\* File events and signals may never come, and nothing is assumed of how
\* long NewHandler (the database, the file system, the init fragments)
\* takes.
FairLoop == WF_vars(MainStep) /\ WF_vars(GoStep)

SpecLoopLive == InitServer /\ [][NextLoop]_vars /\ FairLoop

(***************************************************************************)
(* SpecHandler: the handler TemplateHandler returns for /todos, step by    *)
(* step, on requests a running server has handed to it.                    *)
(***************************************************************************)
S_new == <<110, 101, 119>>
S_label == <<108, 97, 98, 101, 108>>
S_htmx_post_new == <<104, 116, 109, 120, 45, 112, 111, 115, 116, 45, 110, 101, 119>>

DiskHandler ==
  (S_layout_html :> {S_http_get, S_body}) @@
  (S_index_html :> {S_body}) @@
  (S_todos_html :> {S_body, S_htmx_get_nav, S_htmx_post_new, S_init_todos})

\* Number of init fragments the template sets of the routes define for
\* the files of their file lists.
RECURSIVE InitsDue(_, _)
InitsDue(routes, R) ==
  IF R = {} THEN 0
  ELSE LET r == CHOOSE x \in R : TRUE
       IN Cardinality({j \in 1..Len(routes[r].files) :
                         InitName(routes[r].files[j]) \in DOMAIN routes[r].tmpl})
          + InitsDue(routes, R \ {r})

\* The mux a NewHandler call returns on a directory whose files all parse
\* and whose init fragments all succeed.
BuiltMux(d) ==
  LET shared == SharedFiles(d)
      pages == PageFiles(d)
      page(r) == CHOOSE f \in {pages[i] : i \in 1..Len(pages)} : Route(f) = r
      entry(r) == [files |-> FileList(shared, page(r)),
                   tmpl |-> TemplateSet(d, FileList(shared, page(r)))]
      routes == [r \in {Route(pages[i]) : i \in 1..Len(pages)} |-> entry(r)]
  IN [routes |-> routes, state |-> "returned",
      inits |-> InitsDue(routes, DOMAIN routes)]

\* The bodies of the requests: none, form-encoded pairs with or without a
\* pair that cannot be decoded, and one that cannot be read.
Bodies ==
  {NoBody,
   [pairs |-> <<[name |-> S_label, value |-> S_5]>>, malformed |-> FALSE,
    unreadable |-> FALSE],
   [pairs |-> <<[name |-> S_label, value |-> S_5]>>, malformed |-> TRUE,
    unreadable |-> FALSE],
   [pairs |-> <<>>, malformed |-> FALSE, unreadable |-> TRUE]}

HandlerQueries ==
  {<<>>, <<[name |-> S_nav, value |-> S_empty]>>, <<[name |-> S_new, value |-> S_empty]>>}

\* The requests the handler gets; malformed says that r.URL.RawQuery has,
\* besides the pairs of query, one that cannot be decoded.
HandlerRequests ==
  [method : {S_GET, S_POST},
   hx : {<<>>, <<S_true>>},
   query : HandlerQueries,
   malformed : BOOLEAN,
   body : Bodies]

\* routeId := GetRouteId(r)
HandleRouteId(i) ==
  /\ Alive
  /\ reqs[i].pc = "received"
  /\ \E keys \in MapKeys(Query(reqs[i].r)) :
       reqs' = [reqs EXCEPT ![i] = RouteStep(reqs[i], keys)]
  /\ UNCHANGED <<servers, gor, events, changes, timer>>
  /\ UNCHANGED buildVars
  /\ UNCHANGED routeVars
  /\ UNCHANGED db

\* if t := tmpl.Lookup(routeId); t != nil {...} else { http.NotFound(w, r) }
HandleFind(i) ==
  /\ Alive
  /\ reqs[i].pc = "routed"
  /\ reqs' = [reqs EXCEPT ![i] = LookupStep(reqs[i])]
  /\ UNCHANGED <<servers, gor, events, changes, timer>>
  /\ UNCHANGED buildVars
  /\ UNCHANGED routeVars
  /\ UNCHANGED db

\* r.ParseForm() and data := struct{...}{...}
HandleParseForm(i) ==
  /\ Alive
  /\ reqs[i].pc = "found"
  /\ reqs' = [reqs EXCEPT ![i] = ParseStep(reqs[i])]
  /\ UNCHANGED <<servers, gor, events, changes, timer>>
  /\ UNCHANGED buildVars
  /\ UNCHANGED routeVars
  /\ UNCHANGED db

InitHandler ==
  /\ disk = DiskHandler
  /\ mpc = "serving"
  /\ build = NoBuild
  /\ db = NewStore
  /\ muxes = <<BuiltMux(DiskHandler)>>
  /\ handler = 1
  /\ servers = <<[handler |-> 1, lis |-> "listening", shut |-> FALSE]>>
  /\ gor = <<[pc |-> "select", act |-> ""]>>
  /\ events = 0
  /\ changes = 0
  /\ timer = "off"
  /\ reqs \in [1..MaxRequests ->
                {[NewRequest EXCEPT !.pc = "received", !.path = S_todos_path,
                                    !.r = r, !.srv = 1, !.mux = 1,
                                    !.started = BuiltMux(DiskHandler).routes[S_todos_path].tmpl,
                                    !.tmpl = BuiltMux(DiskHandler).routes[S_todos_path].tmpl]
                   : r \in HandlerRequests}]
  /\ req = None
  /\ routeId = None
  /\ calls = 0

\* The next step of the handler serving request i.
HandleRequest(i) ==
  \/ HandleRouteId(i)
  \/ HandleFind(i)
  \/ HandleParseForm(i)
  \/ HandleExecute(i)

NextHandler == \E i \in 1..MaxRequests : HandleRequest(i)

SpecHandler == InitHandler /\ [][NextHandler]_vars

\* The handler runs on the goroutine net/http started for the connection:
\* GetRouteId, Lookup, ParseForm and Execute are straight-line calls that
\* return, so each step that is due is taken.
FairHandler == \A i \in 1..MaxRequests : WF_vars(HandleRequest(i))

\* The requests the fair specification starts from: those without a body,
\* and the POSTs of a well-formed URL whose body cannot be read; the body
\* has no part in which steps the handler takes.
LiveRequests ==
  {r \in HandlerRequests :
     \/ r.body = NoBody
     \/ r.method = S_POST /\ ~r.malformed /\ r.body.unreadable}

InitHandlerLive ==
  /\ InitHandler
  /\ \A i \in 1..MaxRequests : reqs[i].r \in LiveRequests

SpecHandlerLive == InitHandlerLive /\ [][NextHandler]_vars /\ FairHandler

(***************************************************************************)
(* SpecConcurrent: the handler of /todos serving several requests at once, *)
(* each on its own goroutine, in every interleaving of their steps.        *)
(***************************************************************************)
ConcurrentRequests ==
  [method : {S_GET, S_POST},
   hx : {<<S_true>>},
   query : HandlerQueries,
   malformed : {FALSE},
   body : {NoBody}]

InitConcurrent ==
  /\ disk = DiskHandler
  /\ mpc = "serving"
  /\ build = NoBuild
  /\ db = NewStore
  /\ muxes = <<BuiltMux(DiskHandler)>>
  /\ handler = 1
  /\ servers = <<[handler |-> 1, lis |-> "listening", shut |-> FALSE]>>
  /\ gor = <<[pc |-> "select", act |-> ""]>>
  /\ events = 0
  /\ changes = 0
  /\ timer = "off"
  /\ reqs \in [1..MaxConcurrent ->
                {[NewRequest EXCEPT !.pc = "received", !.path = S_todos_path,
                                    !.r = r, !.srv = 1, !.mux = 1,
                                    !.started = BuiltMux(DiskHandler).routes[S_todos_path].tmpl,
                                    !.tmpl = BuiltMux(DiskHandler).routes[S_todos_path].tmpl]
                   : r \in ConcurrentRequests}]
  /\ req = None
  /\ routeId = None
  /\ calls = 0

NextConcurrent == \E i \in 1..MaxConcurrent : HandleRequest(i)

SpecConcurrent == InitConcurrent /\ [][NextConcurrent]_vars

(***************************************************************************)
(* SpecDebounce: one call of watcher.Debounce, step by step, while files   *)
(* change.                                                                 *)
(***************************************************************************)
\* t := time.NewTimer(delay)
InitDebounce ==
  /\ disk \in ServerDisks
  /\ mpc = "debounce"
  /\ build = NoBuild
  /\ db = NewStore
  /\ muxes = <<>>
  /\ handler = 0
  /\ servers = <<>>
  /\ gor = <<>>
  /\ events \in 0..MaxChanges
  /\ changes = 0
  /\ timer = NewTimer
  /\ reqs = [i \in 1..MaxRequests |-> NewRequest]
  /\ req = None
  /\ routeId = None
  /\ calls = 0

\* A pass of the select of Debounce.
DebounceStep == DebounceEvent \/ DebounceTimeout

NextDebounce == Tick \/ TimerFires \/ DebounceStep \/ FileChange

SpecDebounce == InitDebounce /\ [][NextDebounce]_vars

\* Time passes, a timer whose time is up fires, and the goroutine in the
\* select of Debounce takes a case that is ready. Files need not change.
FairDebounce == WF_vars(Tick) /\ WF_vars(TimerFires) /\ WF_vars(DebounceStep)

SpecDebounceLive == InitDebounce /\ [][NextDebounce]_vars /\ FairDebounce

(***************************************************************************)
(* Properties of GetRouteId.                                               *)
(***************************************************************************)
Derived == calls >= 1

Names(r) == DOMAIN Query(r)
KeptNames(r) == {n \in Names(r) : ~HasPrefixUnderscore(n)}
QueryNames(r) == [i \in 1..Len(r.query) |-> r.query[i].name]
Truthy(r) == HeaderGet(r) = S_true

RECURSIVE Hyphens(_)
Hyphens(s) ==
  IF Len(s) = 0 THEN 0
  ELSE (IF s[1] = Hyphen THEN 1 ELSE 0) + Hyphens(Tail(s))

\* len(strings.Split(s, "-"))
Segments(s) == Hyphens(s) + 1

IsLower(s) == \A i \in 1..Len(s) : s[i] \notin 65..90

RECURSIVE SumHyphens(_)
SumHyphens(S) ==
  IF S = {} THEN 0
  ELSE LET n == CHOOSE x \in S : TRUE
       IN Hyphens(n) + SumHyphens(S \ {n})

\* Same method, same marker truthiness, same case-folded set of kept names.
SameRouteInputs(r1, r2) ==
  /\ r1.method = r2.method
  /\ Truthy(r1) = Truthy(r2)
  /\ {ToLower(n) : n \in KeptNames(r1)} = {ToLower(n) : n \in KeptNames(r2)}

\* C1: two requests with the same method, the same truthiness of the
\* HX-Request header and the same set of non-underscore parameter names,
\* compared regardless of order, casing, values and duplicates, get the
\* same route id.
C1_SameInputsSameRouteId ==
  Derived =>
    \A r2 \in Requests :
      SameRouteInputs(req, r2) => \A id2 \in RouteIds(r2) : id2 = routeId

\* C2 (as stated): the route id is lowercase and splits on '-' into exactly
\* 2 + k segments, k the number of distinct non-underscore parameter names.
C2_SegmentsAsStated ==
  Derived =>
    /\ IsLower(routeId)
    /\ Segments(routeId) = 2 + Cardinality(KeptNames(req))

\* C2 (amended): the route id is lowercase and splits on '-' into
\* 2 + k + h segments, k the number of distinct non-underscore parameter
\* names and h the number of hyphens inside the method and those names.
C2_SegmentsWithHyphens ==
  Derived =>
    /\ IsLower(routeId)
    /\ Segments(routeId) =
         2 + Cardinality(KeptNames(req))
           + Hyphens(req.method) + SumHyphens(KeptNames(req))

C2_Witness ==
  /\ Derived
  /\ S_a_b \in KeptNames(req)
  /\ S_ID \in KeptNames(req)
  /\ Segments(routeId) = 5

\* The request with the underscore-prefixed parameters taken out of the URL.
StripUnderscore(r) ==
  [r EXCEPT !.query = SelectSeq(r.query, LAMBDA p : ~HasPrefixUnderscore(p.name))]

SeqRange(s) == {s[i] : i \in 1..Len(s)}

HasPrefixHtmx(s) == Len(s) >= 4 /\ SubSeq(s, 1, 4) = S_htmx
HasPrefixHttp(s) == Len(s) >= 4 /\ SubSeq(s, 1, 4) = S_http

Returned == build.state = "returned"

BuiltRoutes == muxes[build.id].routes

\* Number of executions in this construction that satisfy Test.
CountRuns(Test(_)) == Cardinality({i \in 1..Len(build.runs) : Test(build.runs[i])})

\* C8 (as stated): when a construction returns its handler, every fragment
\* of a template set of the construction that is named init- followed by
\* the identifier of a page has been executed exactly once.
C8_EveryPageInitOnce ==
  Returned =>
    \A i \in 1..Len(build.pages) :
      LET frag == InitName(build.pages[i])
      IN (\E r \in DOMAIN BuiltRoutes : frag \in DOMAIN BuiltRoutes[r].tmpl)
           => CountRuns(LAMBDA run : run.frag = frag) = 1

\* C8 (amended): when a construction returns its handler, the
\* TemplateHandler call of each page has executed exactly once every
\* fragment of that page's own template set named init- followed by the
\* base name of a file of the page's file list (the shared files and the
\* page file), and nothing else: init-P is run once when the template set
\* of page P defines it, and an init-P that only another page's template
\* set defines is never run.
C8_OwnInitOncePerPage ==
  Returned =>
    /\ \A i \in 1..Len(build.pages) :
         LET page == build.pages[i]
             files == FileList(build.shared, page)
             tmpl == BuiltRoutes[Route(page)].tmpl
         IN \A j \in 1..Len(files) :
              CountRuns(LAMBDA run : run.page = page /\ run.frag = InitName(files[j]))
                = IF InitName(files[j]) \in DOMAIN tmpl THEN 1 ELSE 0
    /\ \A k \in 1..Len(build.runs) :
         /\ \E i \in 1..Len(build.pages) : build.runs[k].page = build.pages[i]
         /\ \E f \in SeqRange(FileList(build.shared, build.runs[k].page)) :
              build.runs[k].frag = InitName(f)

C8_Witness ==
  /\ Returned
  /\ Len(build.pages) = 2
  /\ CountRuns(LAMBDA run : run.frag = S_init_todos) = 1
  /\ CountRuns(LAMBDA run : run.frag = S_init_layout) = 2
  /\ \E r \in DOMAIN BuiltRoutes : S_init_index \in DOMAIN BuiltRoutes[r].tmpl
  /\ CountRuns(LAMBDA run : run.frag = S_init_index) = 0

(***************************************************************************)
(* Properties of the running server.                                       *)
(***************************************************************************)
\* What became of the construction a handler value came from; "nil" for
\* the nil handler.
MuxState(m) == IF m \in DOMAIN muxes THEN muxes[m].state ELSE "nil"

\* A construction that returned its handler with a nil error.
Complete(m) == MuxState(m) \in {"returned", "replaced"}

\* The request was accepted by a server of the process.
Accepted(q) == q.srv # 0

PastLookup(q) == q.pc \in {"notfound", "executing", "completed", "failed"}

\* C5: when the route id of a request is not the name of a fragment of the
\* handler's template set, the response is a 404, no fragment is
\* executed, no helper is called and the form is not parsed.
C5_MissIsNotFound ==
  \A i \in 1..MaxRequests :
    LET q == reqs[i]
    IN (PastLookup(q) /\ q.id \notin DOMAIN q.started) =>
         /\ q.pc = "notfound"
         /\ q.status = 404
         /\ ~q.executed
         /\ q.helpers = 0
         /\ q.out = 0
         /\ ~q.parsed

C5_Witness ==
  \E i \in 1..MaxRequests :
    /\ reqs[i].pc = "notfound"
    /\ reqs[i].id = S_htmx_get_nav
    /\ reqs[i].started # <<>>
    /\ reqs[i].status = 404

\* Every accepted request is served by the handler of the server that
\* accepted it, a handler whose construction had returned, and against the
\* template set it was handed to when it was accepted.
ServedByOneCompleteSet ==
  \A i \in 1..MaxRequests :
    LET q == reqs[i]
    IN Accepted(q) =>
         /\ q.mux = servers[q.srv].handler
         /\ Complete(q.mux)
         /\ q.tmpl = q.started

\* C6 (as stated): while the handler is rebuilt after a file change, every
\* request issued is served completely by one fully constructed template
\* set, none is refused, and a request in flight at the substitution
\* finishes against the set it started with.
C6_ReloadServesEveryRequest ==
  /\ ServedByOneCompleteSet
  /\ \A i \in 1..MaxRequests :
       ~(reqs[i].pc = "refused" /\ reqs[i].phase = "rebuild")

\* C6 (amended): the server is shut down before the handler is rebuilt
\* and a new one is started after it, so while the rebuild is in progress
\* no server listens and a request issued then is refused; every request
\* a server accepted is served by exactly one fully constructed template
\* set, the one of the handler that server was made with, never by one
\* under construction, and a request in flight at the substitution
\* finishes against the set it started with.
C6_AcceptedServedByCompleteSet ==
  /\ ServedByOneCompleteSet
  /\ Phase = "rebuild" =>
       \A it \in 1..Len(servers) : servers[it].lis # "listening"
  /\ \A i \in 1..MaxRequests :
       reqs[i].pc = "refused" => ~Accepted(reqs[i]) /\ ~reqs[i].executed

C6_Witness ==
  \E i \in 1..MaxRequests :
    /\ reqs[i].pc = "executing"
    /\ MuxState(reqs[i].mux) = "replaced"
    /\ handler # reqs[i].mux
    /\ servers[Iter].lis = "listening"

\* The constructions whose handler main has received with a nil error.
Received ==
  {m \in DOMAIN muxes : Complete(m) /\ ~(build.state = "returned" /\ build.id = m)}

Max(S) == CHOOSE x \in S : \A y \in S : y <= x

\* C7: the installed handler is the result of the most recent NewHandler
\* call that succeeded (the initial one when no reload succeeded), a
\* failed reload leaves it unchanged, and every server is started with it.
C7_OnlySuccessfulInstalled ==
  /\ handler = IF Received = {} THEN 0 ELSE Max(Received)
  /\ \A it \in 1..Len(servers) : servers[it].handler \in Received
  /\ mpc \in {"listen", "serving", "recv"} => servers[Iter].handler = handler

C7_Witness ==
  /\ Len(muxes) = 2
  /\ MuxState(1) = "returned"
  /\ MuxState(2) = "failed"
  /\ build.state = "none"
  /\ handler = 1
  /\ Iter = 2
  /\ servers[2].handler = 1
  /\ servers[2].lis = "listening"

\* Position of a page in pageFiles, and of the file an executed init
\* fragment is named after in the file list of its page.
PageIndex(page) == CHOOSE i \in 1..Len(build.pages) : build.pages[i] = page

FileIndex(run) ==
  LET files == FileList(build.shared, run.page)
  IN CHOOSE j \in 1..Len(files) : InitName(files[j]) = run.frag

RunsInFileOrder ==
  \A a, b \in 1..Len(build.runs) :
    a < b =>
      \/ PageIndex(build.runs[a].page) < PageIndex(build.runs[b].page)
      \/ /\ build.runs[a].page = build.runs[b].page
         /\ FileIndex(build.runs[a]) < FileIndex(build.runs[b])

\* C9: init fragments run in the order of the file list; a construction
\* that returns its handler has run all of them; and every server, at the
\* start and after every reload, and so every request, gets only a handler
\* whose construction returned.
C9_InitsBeforeRequests ==
  /\ build.state # "none" => RunsInFileOrder
  /\ build.state = "returned" =>
       muxes[build.id].inits =
         InitsDue(muxes[build.id].routes, DOMAIN muxes[build.id].routes)
  /\ \A it \in 1..Len(servers) : Complete(servers[it].handler)
  /\ \A i \in 1..MaxRequests :
       Accepted(reqs[i]) => Complete(reqs[i].mux)

C9_Witness ==
  \E i \in 1..MaxRequests :
    /\ reqs[i].pc = "executing"
    /\ reqs[i].mux = 2
    /\ handler = 2
    /\ muxes[2].inits >= 1

\* C10: when the execution of an init fragment returns an error,
\* NewHandler returns an error and no handler, and the mux of that
\* construction is never installed, given to a server, or used to serve a
\* request.
C10_InitErrorNothingInstalled ==
  /\ (build.state = "failed" /\ build.why = "init") =>
       /\ NewHandlerResult(build) = [handler |-> 0, err |-> TRUE]
       /\ MuxState(build.id) = "failed"
  /\ \A m \in DOMAIN muxes :
       muxes[m].state = "failed" =>
         /\ handler # m
         /\ \A it \in 1..Len(servers) : servers[it].handler # m
         /\ \A i \in 1..MaxRequests : reqs[i].mux # m

C10_Witness ==
  /\ build.state = "failed"
  /\ build.why = "init"
  /\ Len(build.runs) >= 2
  /\ mpc = "reload_build"
  /\ handler = 1

(***************************************************************************)
(* Properties of the handler.                                              *)
(***************************************************************************)
\* C11: when the execution of the matched fragment fails before any output
\* was written, the response has the status 500 and not a success status.
C11_FailureBeforeOutputIs500 ==
  \A i \in 1..MaxRequests :
    (reqs[i].pc = "failed" /\ reqs[i].out = 0) => reqs[i].status = 500

\* C12: when the execution fails after part of the output was written
\* (a helper returned an error, or the execution failed otherwise), the
\* output written stays in the response, the handler appends nothing and
\* sets no other status, the error is in the log entry of the request, and
\* the handler has returned with the process running.
C12_PartialOutputKept ==
  \A i \in 1..MaxRequests :
    LET q == reqs[i]
    IN (q.executed /\ q.err /\ q.out > 0) =>
         /\ q.pc = "failed"
         /\ q.kept = q.out
         /\ q.appended = 0
         /\ q.status = 200
         /\ q.log = "err"
         /\ Alive

C12_Witness ==
  \E i \in 1..MaxRequests :
    /\ reqs[i].pc = "failed"
    /\ reqs[i].out = 1
    /\ reqs[i].helpers = 1
    /\ reqs[i].kept = 1
    /\ reqs[i].log = "err"

\* The names of the pairs of a query or body that can be decoded.
PairNames(pairs) == {pairs[k].name : k \in 1..Len(pairs)}

\* The handler has called ParseForm on a hit and ParseForm returned an
\* error.
ParseFailed(q) == q.parsed /\ q.formErr

\* C13 (as stated): on a hit, when parsing the form fails, the fragment is
\* still executed and sees empty Form and PostForm.
C13_ParseFailureEmptyForm ==
  \A i \in 1..MaxRequests :
    LET q == reqs[i]
    IN ParseFailed(q) =>
         /\ q.pc \in {"executing", "completed", "failed"}
         /\ q.form = <<>>
         /\ q.postForm = <<>>

\* C13 (amended): on a hit, when parsing the form fails, the request does
\* not fail for it: the fragment is still executed, and Form and PostForm
\* are maps that hold every pair that could be decoded (PostForm those of
\* a readable POST, PUT or PATCH body, Form those and the ones of the
\* query); they are empty only when no pair could be decoded.
C13_ParseFailureKeepsDecodedPairs ==
  \A i \in 1..MaxRequests :
    LET q == reqs[i]
        bodyNames == IF q.r.method \in {S_POST, S_PUT, S_PATCH} /\ ~q.r.body.unreadable
                     THEN PairNames(q.r.body.pairs) ELSE {}
    IN ParseFailed(q) =>
         /\ q.pc \in {"executing", "completed", "failed"}
         /\ q.id \in DOMAIN q.tmpl
         /\ q.status # 404
         /\ DOMAIN q.postForm = bodyNames
         /\ DOMAIN q.form = bodyNames \cup PairNames(q.r.query)
         /\ \A n \in DOMAIN q.form : Len(q.form[n]) >= 1

C13_Witness ==
  \E i \in 1..MaxRequests :
    /\ ParseFailed(reqs[i])
    /\ reqs[i].pc = "completed"
    /\ reqs[i].r.body.malformed
    /\ S_label \in DOMAIN reqs[i].postForm
    /\ S_new \in DOMAIN reqs[i].form

(***************************************************************************)
(* More properties of GetRouteId.                                          *)
(***************************************************************************)
S_htmx_get == <<104, 116, 109, 120, 45, 103, 101, 116>>

\* b is the byte a, or its lowercase letter when a is an uppercase letter.
LowerOf(a, b) == b = (IF a \in 65..90 THEN a + 32 ELSE a)

\* id is pre, one hyphen, and the method in lowercase, and nothing more.
IsPrefixMethod(id, pre, method) ==
  /\ Len(id) = Len(pre) + 1 + Len(method)
  /\ SubSeq(id, 1, Len(pre)) = pre
  /\ id[Len(pre) + 1] = Hyphen
  /\ \A k \in 1..Len(method) : LowerOf(method[k], id[Len(pre) + 1 + k])

S_htmx_post_id_type ==
  <<104, 116, 109, 120, 45, 112, 111, 115, 116, 45, 105, 100, 45, 116, 121, 112, 101>>

LoweredKept(r) ==
  LET kept == FilterKeys(SortStrings(CHOOSE keys \in MapKeys(Query(r)) : TRUE))
  IN [k \in 1..Len(kept) |-> ToLower(kept[k])]

\* s is in ascending order (equal neighbours allowed).
Ascending(s) == \A k \in 1..(Len(s) - 1) : ~StrLess(s[k + 1], s[k])

\* C16: the parameter-name segments of the route id are in ascending order
\* of their lowercased form: the route id is the one obtained by
\* lowercasing the names first and sorting them then.
C16_SegmentsAscendingLowercased ==
  Derived =>
    /\ Ascending(LoweredKept(req))
    /\ routeId = Join(<<Prefix(req), ToLower(req.method)>>
                        \o SortStrings(LoweredKept(req)))

\* The request with every repetition of a parameter name taken out of the
\* URL (the first occurrence of each name stays).
Dedup(r) ==
  [r EXCEPT !.query =
     LET RECURSIVE firsts(_)
         firsts(k) ==
           IF k > Len(r.query) THEN <<>>
           ELSE IF \E j \in 1..(k - 1) : r.query[j].name = r.query[k].name
                THEN firsts(k + 1)
                ELSE <<r.query[k]>> \o firsts(k + 1)
     IN firsts(1)]

\* C17: a parameter name that occurs several times in the URL, with any
\* values, contributes one segment: the request gets the route id of the
\* request without the repetitions, with one segment per kept name.
C17_RepeatedNameOneSegment ==
  Derived =>
    /\ routeId \in RouteIds(Dedup(req))
    /\ Segments(routeId) =
         2 + Cardinality(KeptNames(req))
           + Hyphens(req.method) + SumHyphens(KeptNames(req))

C17_Witness ==
  /\ Derived
  /\ Len(req.query) = 2
  /\ req.query[1].name = S_id
  /\ req.query[2].name = S_id
  /\ req.query[1].value # req.query[2].value
  /\ req.method = S_GET
  /\ Segments(routeId) = 3

\* C18: GetRouteId cannot fail and has no side effects: every call
\* returns a route id and leaves the method, the headers and the query of
\* the request as they were, and every further call on the same request
\* returns the string the call before returned.
C18_NoSideEffectsSameResult ==
  [][calls' > calls =>
       /\ req' = req
       /\ routeId' # None
       /\ calls >= 1 => routeId' = routeId]_vars

C18_Witness ==
  /\ calls = MaxCalls
  /\ calls >= 2
  /\ S_cache \in Names(req)
  /\ S_ID \in Names(req)
  /\ routeId # None

S_hx == <<104, 120>>

\* The route id as the doc comment of TemplateHandler describes it: hx
\* first when the request has header HX-Request=true, nothing otherwise,
\* then the method, then the sorted unique query parameters, joined with
\* '-' and lowercased.
DocRouteId(r, keys) ==
  ToLower(Join((IF HeaderGet(r) = S_true THEN <<S_hx>> ELSE <<>>)
                 \o <<r.method>> \o FilterKeys(SortStrings(keys))))

\* C19: the route id GetRouteId returns is the documented one: prefixed
\* with hx- only under HX-Request=true and with no prefix otherwise, so
\* that a plain GET gives get and a GET with the header gives hx-get.
C19_DocumentedRouteId ==
  Derived => \E keys \in MapKeys(Query(req)) : routeId = DocRouteId(req, keys)

(***************************************************************************)
(* The state machine of one request.                                       *)
(***************************************************************************)
Terminal == {"notfound", "completed", "failed"}

Edges ==
  {<<"received", "routed">>, <<"routed", "notfound">>, <<"routed", "found">>,
   <<"found", "executing">>, <<"executing", "completed">>,
   <<"executing", "failed">>}

\* What holds of request i in every state.
RequestState(i) ==
  LET q == reqs[i]
  IN /\ q.pc \in {"received", "routed", "found", "executing"} \cup Terminal
     /\ (q.id = None) <=> (q.pc = "received")
     /\ q.pc \in {"found", "executing", "completed", "failed"} =>
          q.id \in DOMAIN q.tmpl
     /\ q.pc = "notfound" => (q.id \notin DOMAIN q.tmpl /\ ~q.executed /\ ~q.parsed)
     /\ q.executed <=> (q.pc \in {"completed", "failed"})
     /\ q.executed => q.parsed

\* What holds of every step that changes request i.
RequestStep(i) ==
  LET a == reqs[i]
      b == reqs'[i]
  IN b # a =>
       /\ <<a.pc, b.pc>> \in Edges
       /\ (b.id # a.id) <=> (a.pc = "received")
       /\ (b.executed # a.executed) <=> (a.pc = "executing")

\* C20: every request goes Received -> RouteId computed -> NotFound, or ->
\* Found -> Executing -> Completed or Failed: it reaches a terminal state
\* and never leaves it, the route id is set once, on the first step and
\* before the lookup, the fragment is executed only after a lookup that
\* found it, and nothing changes after a terminal state.
C20_RequestStateMachine ==
  /\ [](\A i \in 1..MaxRequests : RequestState(i))
  /\ [][\A i \in 1..MaxRequests : RequestStep(i)]_vars
  /\ <>[](\A i \in 1..MaxRequests : reqs[i].pc \in Terminal)

C20_Witness ==
  /\ \A i \in 1..MaxRequests : reqs[i].pc \in Terminal
  /\ \E i \in 1..MaxRequests :
       /\ reqs[i].pc = "completed"
       /\ reqs[i].id = S_htmx_post_new
       /\ reqs[i].parsed
       /\ reqs[i].executed

(***************************************************************************)
(* Requests served concurrently.                                           *)
(***************************************************************************)
\* The template set TemplateHandler parsed for /todos.
TodosSet == muxes[1].routes[S_todos_path].tmpl

\* Request j is dispatched by its own route id against the set as parsed.
OwnDispatch(j) ==
  LET q == reqs[j]
  IN /\ q.tmpl = q.started
     /\ q.started = TodosSet
     /\ q.pc # "received" => q.id \in RouteIds(q.r)
     /\ q.pc = "notfound" => q.id \notin DOMAIN TodosSet
     /\ q.pc \in {"found", "executing", "completed", "failed"} =>
          (q.id \in DOMAIN TodosSet /\ q.frag = TodosSet[q.id])

\* C21: in every interleaving of the requests a handler serves, the
\* template set stays the one that was parsed, each request is dispatched
\* by its own route id against that set, a step of one request changes no
\* other request, a request that ended is not changed any more, and the
\* server goes on listening after a miss or a failed execution.
C21_RequestsIndependent ==
  /\ [](\A j \in DOMAIN reqs : OwnDispatch(j))
  /\ [](mpc = "serving" /\ servers[1].lis = "listening")
  /\ [][/\ muxes' = muxes
        /\ \A j, k \in DOMAIN reqs :
             (j # k /\ reqs'[j] # reqs[j]) => reqs'[k] = reqs[k]
        /\ \A j \in DOMAIN reqs :
             reqs[j].pc \in Terminal => reqs'[j] = reqs[j]]_vars

C21_Witness ==
  \E j, k \in DOMAIN reqs :
    /\ j # k
    /\ reqs[j].pc = "failed"
    /\ reqs[k].pc = "executing"
    /\ reqs[k].id = reqs[j].id

(***************************************************************************)
(* Fragments defined in more than one file.                                *)
(***************************************************************************)
\* The definition of name n in file f of the directory.
DefIn(f, n) == CHOOSE x \in disk[f] : x.name = n

\* The positions of the list whose file defines n.
Definers(files, n) ==
  {i \in 1..Len(files) : \E x \in disk[files[i]] : x.name = n}

\* The page file is the last of its list, after the shared files in
\* ascending order.
PageFileLast(ps) ==
  /\ ps.files[Len(ps.files)] = ps.page
  /\ \A i \in 1..(Len(ps.files) - 1) : MatchShared(ps.files[i])
  /\ \A i \in 1..(Len(ps.files) - 2) : StrLess(ps.files[i], ps.files[i + 1])

\* C22: when a fragment name is defined in more than one file of a page's
\* list, the template looked up under the name is the definition of the
\* last of those files, and the page file is the last of the list, so the
\* page's definition is the one rendered.
C22_LastDefinitionWins ==
  build.state = "pages" =>
    \A k \in 1..Len(build.sets) :
      LET ps == build.sets[k]
      IN /\ PageFileLast(ps)
         /\ \A n \in DOMAIN ps.tmpl :
              LET last == Max(Definers(ps.files, n))
              IN Cardinality(Definers(ps.files, n)) > 1 =>
                   /\ ps.tmpl[n].empty = DefIn(ps.files[last], n).empty
                   /\ ~ps.tmpl[n].empty => ps.tmpl[n].file = ps.files[last]

(***************************************************************************)
(* Properties of main's server loop.                                       *)
(***************************************************************************)
Listening == {it \in 1..Len(servers) : servers[it].lis = "listening"}

\* NewHandler is running.
Building == build.state \in {"pages", "returned", "failed"}

\* C23: at most one server listens at any time; when a server has been
\* made, every server before it has been shut down, has stopped listening
\* and its goroutine is past Shutdown and the send of its action; while
\* NewHandler runs no server listens.
C23_OneServerAtATime ==
  /\ Cardinality(Listening) <= 1
  /\ \A it \in 1..(Len(servers) - 1) :
       /\ servers[it].shut
       /\ servers[it].lis # "listening"
       /\ gor[it].pc = "done"
  /\ Building => Listening = {}
  /\ mpc \in {"recv", "debounce", "reload_build", "loop"} => Listening = {}

C23_Witness ==
  /\ Len(servers) = 2
  /\ servers[1].lis = "closed"
  /\ servers[2].lis = "listening"
  /\ mpc = "serving"

\* A goroutine is at its send action <- act.
Sending == \E it \in 1..Len(gor) : gor[it].pc = "send"

\* C24: every iteration has one server and one event goroutine; the
\* goroutine's send is taken by one receive of main, made after
\* ListenAndServe returned for a server that was shut down, and nothing
\* happens to a goroutine after it; the goroutines of the iterations
\* before the present one have all ended; a goroutine at its send
\* gets rid of its action and main at its receive gets one.
C24_OneActionPerIteration ==
  /\ [](/\ Len(gor) = Len(servers)
        /\ \A it \in 1..(Len(gor) - 1) : gor[it].pc = "done"
        /\ mpc = "recv" => servers[Iter].shut)
  /\ [][\A it \in 1..Len(gor) :
          /\ (gor[it].pc # "done" /\ gor'[it].pc = "done") =>
               /\ gor[it].pc = "send"
               /\ it = Iter
               /\ mpc = "recv"
               /\ mpc' = AfterAction(gor[it].act)
          /\ gor[it].pc = "done" => gor'[it] = gor[it]
          /\ (mpc = "recv" /\ mpc' # "recv") =>
               (gor[Iter].pc = "send" /\ gor'[Iter].pc = "done")]_vars
  /\ Sending ~> ~Sending
  /\ (mpc = "recv") ~> (mpc # "recv")

C24_Witness ==
  /\ Len(gor) = 2
  /\ gor[1].pc = "done"
  /\ gor[1].act = "reload"
  /\ gor[2].pc = "send"
  /\ mpc = "recv"

\* An event goroutine has received a termination signal.
SignalTaken == \E it \in 1..Len(gor) : gor[it].act = "shutdown"

\* C25: once a goroutine has received a signal, no handler is constructed
\* or installed and no server is made any more, and the process ends: main
\* leaves the loop, with the server that was listening shut down (or, when
\* the server had not begun to listen, log.Fatal may end it instead);
\* in case "reload" main never leaves the loop: Debounce returns, and once
\* NewHandler has returned, with a handler or with an error, main comes
\* back to ListenAndServe with a new server.
C25_ShutdownEndsReloadRestarts ==
  /\ [][SignalTaken =>
         /\ Len(servers') = Len(servers)
         /\ Len(muxes') = Len(muxes)
         /\ handler' = handler]_vars
  /\ [](mpc = "bye" => (SignalTaken /\ Listening = {}))
  /\ SignalTaken ~> (mpc \in {"bye", "fatal"})
  /\ (SignalTaken /\ Listening # {}) ~> (mpc = "bye")
  /\ [][(mpc \in {"debounce", "reload_build", "loop"}) =>
         (/\ mpc' \in {"debounce", "reload_build", "loop", "listen"}
          /\ (mpc' = "listen" => Len(servers') = Len(servers) + 1))]_vars
  /\ (mpc = "debounce") ~> (mpc = "reload_build")
  /\ (mpc = "reload_build" /\ build.state \in {"returned", "failed"}) ~>
       (mpc = "listen")

C25_Witness ==
  /\ Len(servers) = 2
  /\ muxes[Len(muxes)].state = "failed"
  /\ Len(muxes) = 2
  /\ servers[2].lis = "closed"
  /\ gor[2].act = "shutdown"
  /\ mpc = "bye"

(***************************************************************************)
(* Properties of watcher.Debounce.                                         *)
(***************************************************************************)
\* C26: Debounce returns only with its timer fired, after DelayTicks
\* during which it took no event; an event that leaves the channel is
\* taken by Debounce, and when the timer is pending that arms the timer
\* with the full delay again and Debounce goes on; an event taken when the
\* timer has already fired ends Debounce as the timer case does; and
\* Debounce always returns.
C26_DebounceWaitsAndReturns ==
  /\ [](mpc = "reload_build" =>
          (timer.state = "off" /\ timer.left = 0 /\ timer.quiet = DelayTicks))
  /\ [][(mpc = "debounce" /\ events' < events) =>
          (/\ events' = events - 1
           /\ timer'.taken = timer.taken + 1
           /\ IF timer.state = "pending"
              THEN mpc' = "debounce" /\ timer'.state = "pending"
                   /\ timer'.left = DelayTicks
              ELSE mpc' = "reload_build")]_vars
  /\ <>(mpc = "reload_build")

C26_Witness ==
  /\ mpc = "reload_build"
  /\ changes = MaxChanges
  /\ events = 0
  /\ timer.taken >= 1
  /\ timer.state = "off"
  /\ timer.quiet = DelayTicks

(***************************************************************************)
(* C27                                                                     *)
(***************************************************************************)
\* NewHandler has just registered the handler of the page it was at.
PageConstructed ==
  /\ build.state = "pages"
  /\ build'.state = "pages"
  /\ build'.idx = build.idx + 1

\* A reload whose NewHandler call returned an error is over.
FailedReloadOver ==
  /\ mpc = "reload_build"
  /\ build.state = "failed"
  /\ mpc' = "loop"

\* C27: a NewHandler call that constructs the handler of a page executes
\* each init fragment found for the page's files exactly once more,
\* whatever earlier calls of the process have executed; an execution on
\* todos.db is never taken back; and a reload that failed leaves the
\* handler that was installed in use and todos.db as the failed call left
\* it.
C27_InitPerAttempt ==
  /\ [][PageConstructed =>
          LET pageFile == build.pages[build.idx]
              files == FileList(build.shared, pageFile)
              tmpl == TemplateSet(disk, files)
          IN \A i \in 1..Len(files) :
               InitName(files[i]) \in DOMAIN tmpl =>
                 db'[InitName(files[i])] = db[InitName(files[i])] + 1]_vars
  /\ [][\A f \in InitFrags : db'[f] >= db[f]]_vars
  /\ [][FailedReloadOver =>
          /\ handler' = handler
          /\ handler \in DOMAIN muxes
          /\ muxes'[handler].state = "returned"
          /\ db' = db]_vars

\* A reload failed at todos.html after it had built the handler of
\* index.html and executed init-index, which the first NewHandler call had
\* executed too; the first handler is still the one in use.
C27_Witness ==
  /\ mpc = "loop"
  /\ Len(muxes) = 2
  /\ muxes[2].state = "failed"
  /\ handler = 1
  /\ muxes[1].state = "returned"
  /\ db[S_init_index] = 2
  /\ db[S_init_todos] = 1

====
